---- MODULE Spec2Model ----
(***************************************************************************)
(* Model of the three wallet/token scripts: createTokenWithMetadata,       *)
(* transferSOL and transferToken.  One invocation of one operation is      *)
(* followed from its call to its result; every await of an RPC is a step   *)
(* whose answer (a value, or a rejection) is chosen by the environment.    *)
(*                                                                         *)
(* JavaScript numbers are IEEE-754 doubles.  Non-negative integers are     *)
(* kept as sequences of bits, least significant first, without leading     *)
(* zeros (zero is the empty sequence), so that products beyond 2^53 are    *)
(* rounded exactly as the script rounds them.                              *)
(***************************************************************************)
EXTENDS Integers, Sequences, FiniteSets, TLC

\* Length of a secret key in bytes, scaled down from the 64 bytes of the
\* signature scheme: KeyLen - 1 seed bytes followed by one public byte.
KeyLen == 2

\* Significant bits of a double.
MantissaBits == 53

\* Decimal places of the native coin (1 SOL = 10^9 lamports).
SOL_DECIMALS == 9

----------------------------------------------------------------------------
(* Arithmetic on bit sequences.                                            *)

Zero == <<>>

RECURSIVE NatToBits(_)
NatToBits(n) == IF n = 0 THEN <<>> ELSE <<n % 2>> \o NatToBits(n \div 2)

Bit(b, i) == IF i >= 1 /\ i <= Len(b) THEN b[i] ELSE 0

RECURSIVE Trim(_)
Trim(b) ==
  IF b = <<>> \/ b[Len(b)] = 1 THEN b ELSE Trim(SubSeq(b, 1, Len(b) - 1))

RECURSIVE AddFrom(_, _, _, _)
AddFrom(a, b, i, c) ==
  IF i > Len(a) /\ i > Len(b)
  THEN IF c = 1 THEN <<1>> ELSE <<>>
  ELSE LET s == Bit(a, i) + Bit(b, i) + c
       IN  <<s % 2>> \o AddFrom(a, b, i + 1, s \div 2)

Add(a, b) == AddFrom(a, b, 1, 0)

RECURSIVE SubFrom(_, _, _, _)
SubFrom(a, b, i, c) ==
  IF i > Len(a)
  THEN <<>>
  ELSE LET s == Bit(a, i) - Bit(b, i) - c
       IN  <<s % 2>> \o SubFrom(a, b, i + 1, IF s < 0 THEN 1 ELSE 0)

\* a - b for a >= b
Sub(a, b) == Trim(SubFrom(a, b, 1, 0))

ShiftLeft(b, k) == IF b = <<>> THEN <<>> ELSE [i \in 1..k |-> 0] \o b

Less(a, b) ==
  IF Len(a) # Len(b)
  THEN Len(a) < Len(b)
  ELSE \E i \in 1..Len(a) :
         /\ a[i] < b[i]
         /\ \A j \in (i + 1)..Len(a) : a[j] = b[j]

\* The bits x[lo..hi] times m, entered with carry c < m < 2^30: the product
\* bits for the positions lo..hi and the carry left.  The range is halved,
\* and the lower half is evaluated first, so that the evaluation stays
\* shallow (the carry is never negative, so the first branch is never
\* taken).
RECURSIVE TimesRange(_, _, _, _, _)
TimesRange(x, m, lo, hi, c) ==
  IF lo > hi
  THEN [q |-> <<>>, c |-> c]
  ELSE IF lo = hi
  THEN LET t == x[lo] * m + c
       IN  [q |-> <<t % 2>>, c |-> t \div 2]
  ELSE LET mid == (lo + hi) \div 2
           low == TimesRange(x, m, lo, mid, c)
       IN  IF low.c < 0
           THEN low
           ELSE LET high == TimesRange(x, m, mid + 1, hi, low.c)
                IN  [q |-> low.q \o high.q, c |-> high.c]

\* b * m for 1 <= m < 2^30
TimesSmall(b, m) ==
  LET r == TimesRange(b, m, 1, Len(b), 0) IN r.q \o NatToBits(r.c)

RECURSIVE Pow10(_)
Pow10(d) == IF d = 0 THEN 1 ELSE 10 * Pow10(d - 1)

\* b * 10^d, exactly
RECURSIVE TimesPow10(_, _)
TimesPow10(b, d) ==
  IF d <= 9 THEN TimesSmall(b, Pow10(d))
  ELSE TimesPow10(TimesSmall(b, Pow10(9)), d - 9)

\* b + 1
Increment(b) ==
  IF \A i \in 1..Len(b) : b[i] = 1
  THEN [i \in 1..Len(b) |-> 0] \o <<1>>
  ELSE LET t == CHOOSE i \in 1..Len(b) : b[i] = 0 /\ \A j \in 1..(i - 1) : b[j] = 1
       IN  [i \in 1..Len(b) |-> IF i < t THEN 0 ELSE IF i = t THEN 1 ELSE b[i]]

\* Long division of the bits x[lo..hi] (most significant first) by d,
\* entered with remainder r < d < 2^30: the quotient bits for the positions
\* lo..hi and the remainder left.  The range is halved, and the upper half
\* is evaluated first, so that the evaluation stays shallow (the remainder
\* is always below d, so the first branch is never taken).
RECURSIVE LongDiv(_, _, _, _, _)
LongDiv(x, d, lo, hi, r) ==
  IF lo > hi
  THEN [q |-> <<>>, r |-> r]
  ELSE IF lo = hi
  THEN LET t == 2 * r + x[lo]
       IN  IF t >= d THEN [q |-> <<1>>, r |-> t - d] ELSE [q |-> <<0>>, r |-> t]
  ELSE LET mid  == (lo + hi) \div 2
           high == LongDiv(x, d, mid + 1, hi, r)
       IN  IF high.r >= d
           THEN high
           ELSE LET low == LongDiv(x, d, lo, mid, high.r)
                IN  [q |-> low.q \o high.q, r |-> low.r]

\* Round-to-nearest, ties-to-even, of the integer b (+ a fraction in (0,1)
\* when sticky) to MantissaBits significant bits.
RoundNearestEven(b, sticky) ==
  IF Len(b) <= MantissaBits
  THEN b
  ELSE LET k      == Len(b) - MantissaBits
           kept   == SubSeq(b, k + 1, Len(b))
           guard  == b[k]
           rest   == sticky \/ \E i \in 1..(k - 1) : b[i] = 1
           roundUp == guard = 1 /\ (rest \/ kept[1] = 1)
       IN  ShiftLeft(IF roundUp THEN Increment(kept) ELSE kept, k)

\* The double nearest to the integer b.
ToNumber(b) == RoundNearestEven(b, FALSE)

\* a * Math.pow(10, d) for an integer-valued double a: 10^d is exact for the
\* d in use, so the product is the exact product rounded once.
NumberTimesPow10(a, d) == ToNumber(TimesPow10(a, d))

\* Fraction bits kept by the long division below: enough for the quotient
\* of any non-zero dividend to have more than MantissaBits + 1 bits.
DivScale(d) == MantissaBits + Len(NatToBits(Pow10(d))) + 2

\* The double nearest to b / 10^d, times 2^DivScale(d) (an integer).
NumberDivPow10(b, d) ==
  LET x == ShiftLeft(b, DivScale(d))
      n == LongDiv(x, Pow10(d), 1, Len(x), 0)
  IN  RoundNearestEven(Trim(n.q), n.r # 0)

TrailingZeros(b) ==
  IF b = <<>> THEN 0
  ELSE (CHOOSE i \in 1..Len(b) : b[i] = 1 /\ \A j \in 1..(i - 1) : b[j] = 0) - 1

ShiftRight(b, k) == IF Len(b) <= k THEN <<>> ELSE SubSeq(b, k + 1, Len(b))

\* x * Math.pow(10, d) for the double x, given and returned times
\* 2^DivScale(d); the significant bits alone are multiplied and rounded
DoubleTimesPow10(x, d) ==
  LET z == TrailingZeros(x)
  IN  ShiftLeft(ToNumber(TimesPow10(ShiftRight(x, z), d)), z)

----------------------------------------------------------------------------
(* Private keys: strings of characters, decoded to bytes.                  *)

HexDigits == {"0", "1"}
\* the characters a key string is drawn from: two hex digits and a non-hex one
KeyAlphabet == HexDigits \cup {"g"}

HexValue(c) == IF c = "1" THEN 1 ELSE 0

MaxKeyChars == 2 * KeyLen + 1

RECURSIVE StringsUpTo(_)
StringsUpTo(n) ==
  IF n = 0 THEN {<<>>}
  ELSE LET shorter == StringsUpTo(n - 1)
       IN  shorter \cup {Append(s, c) : s \in {t \in shorter : Len(t) = n - 1},
                                        c \in KeyAlphabet}

KeyStrings == StringsUpTo(MaxKeyChars)

NaN == -1

\* parseInt(chunk, 16) for a chunk of one or two characters: the longest
\* prefix of hex digits, NaN when there is none
ParseInt16(chunk) ==
  IF chunk[1] \notin HexDigits THEN NaN
  ELSE IF Len(chunk) = 2 /\ chunk[2] \in HexDigits
       THEN 16 * HexValue(chunk[1]) + HexValue(chunk[2])
       ELSE HexValue(chunk[1])

\* storing a number in a Uint8Array: NaN becomes 0
ToUint8(v) == IF v = NaN THEN 0 ELSE v % 256

\* privateKey.match(/.{1,2}/g): chunks of two characters, the last one of
\* one character when the length is odd (null for the empty string)
MatchPairs(str) ==
  [i \in 1..((Len(str) + 1) \div 2) |->
     SubSeq(str, 2 * i - 1, IF 2 * i <= Len(str) THEN 2 * i ELSE Len(str))]

\* new Uint8Array(privateKey.match(/.{1,2}/g).map(byte => parseInt(byte, 16)))
HexToBytesByMatch(str) ==
  LET chunks == MatchPairs(str)
  IN  [i \in 1..Len(chunks) |-> ToUint8(ParseInt16(chunks[i]))]

\* Buffer.from(str, 'hex'): whole pairs of hex digits are decoded up to the
\* first pair that holds a non-hex character; a trailing single character
\* is dropped
BufferFromHex(str) ==
  LET n    == Len(str) \div 2
      ok(i) == str[2 * i - 1] \in HexDigits /\ str[2 * i] \in HexDigits
      m    == IF \A i \in 1..n : ok(i) THEN n
              ELSE (CHOOSE i \in 1..n : ~ok(i) /\ \A j \in 1..(i - 1) : ok(j)) - 1
  IN  [i \in 1..m |-> 16 * HexValue(str[2 * i - 1]) + HexValue(str[2 * i])]

Err(msg) == [hasMessage |-> TRUE, message |-> msg]
\* a thrown value that carries no message string
NoMessageValue == [hasMessage |-> FALSE, message |-> ""]
NoError == [hasMessage |-> FALSE, message |-> "none"]

NoKeypair == [publicKey |-> -1, secretKey |-> <<>>]

\* the public byte the signature scheme derives from the seed bytes
PublicOf(seed) == seed[1]

\* Keypair.fromSecretKey(secretKey): the keypair, or the error it throws
KeypairFromSecretKey(secretKey) ==
  IF Len(secretKey) # KeyLen
  THEN [ok |-> FALSE, error |-> Err("bad secret key size"), keypair |-> NoKeypair]
  ELSE IF secretKey[KeyLen] # PublicOf(SubSeq(secretKey, 1, KeyLen - 1))
  THEN [ok |-> FALSE, error |-> Err("provided secretKey is invalid"),
        keypair |-> NoKeypair]
  ELSE [ok |-> TRUE, error |-> NoError,
        keypair |-> [publicKey |-> secretKey[KeyLen], secretKey |-> secretKey]]

\* part_000 lines 38-49: the wallet of createTokenWithMetadata
WalletFromPrivateKey(privateKey) ==
  IF privateKey = <<>>
  THEN [ok |-> FALSE, keypair |-> NoKeypair,
        error |-> Err("Cannot read properties of null (reading 'map')")]
  ELSE KeypairFromSecretKey(HexToBytesByMatch(privateKey))

\* part_001 lines 73-74 and 134: the sender of transferSOL and transferToken
SenderFromPrivateKeyHex(senderPrivateKeyHex) ==
  KeypairFromSecretKey(BufferFromHex(senderPrivateKeyHex))

----------------------------------------------------------------------------
(* Inputs and answers of the environment.                                  *)

\* 9,999,999,999: a whole-unit amount whose product with 10^9 is below 2^64
\* and is not a double
TenBillionLessOne == Add(TimesPow10(NatToBits(99999), 5), NatToBits(99999))

\* TOKEN_CONFIG of the configuration module: initialSupply and decimals
TokenConfigs ==
  { [initialSupply |-> NatToBits(1000000), decimals |-> 6],
    [initialSupply |-> NatToBits(1), decimals |-> 0],
    [initialSupply |-> TenBillionLessOne, decimals |-> 9] }

\* recipientPublicKeyStr: the public byte of some wallet
Recipients == {0, 1}

\* 8,915,966,258,639,269: the lamports of 8915966.258639269 coins
LargeLamports == Add(TimesPow10(NatToBits(8915966), 9), NatToBits(258639269))

\* amountSOL of transferSOL, in 10^-9 coins: 0, 0.005, 1, 10^8 and
\* 8915966.258639269 coins
SolAmounts ==
  { NatToBits(0), NatToBits(5000000), NatToBits(1000000000),
    TimesPow10(NatToBits(1), 17), LargeLamports }

\* lamport balances getBalance may answer (each one a double): around 1
\* coin, the two doubles around 10^17 lamports, and one lamport less than
\* LargeLamports
LamportBalances ==
  { NatToBits(0), NatToBits(999999999), NatToBits(1000000000),
    Sub(TimesPow10(NatToBits(1), 17), NatToBits(16)),
    TimesPow10(NatToBits(1), 17),
    Sub(LargeLamports, NatToBits(1)) }

\* amount of transferToken, in whole tokens
TokenAmounts == {NatToBits(0), NatToBits(1), NatToBits(3), TenBillionLessOne}

\* decimals of the mint that getMint may answer
MintDecimals == {0, 9}

\* value.amount that getTokenAccountBalance may answer (a decimal string of
\* an unsigned 64-bit integer)
TokenBalances ==
  { NatToBits(0), NatToBits(1), NatToBits(2), TimesPow10(NatToBits(3), 9),
    TimesPow10(TenBillionLessOne, 9) }

Blockhashes == {"blockhashA", "blockhashB"}
Signatures == {"signatureA", "signatureB"}

\* what an awaited RPC rejects with
RpcRejections == {Err("failed to get info: fetch failed"), NoMessageValue}

MintAddress == "mint"
NewMintKeypair == [publicKey |-> "newMint", secretKey |-> "newMintSecret"]

\* getAssociatedTokenAddress(mint, owner): determined by the pair
AssociatedTokenAddress(mint, owner) == <<owner, mint>>

----------------------------------------------------------------------------
(* State.                                                                  *)

VARIABLES
  op,        \* the operation invoked: "none" before the call
  pc,        \* the await the invocation stands at, "done" once it has ended
  args,      \* the arguments (and, for token creation, TOKEN_CONFIG)
  loc,       \* the local constants of the invocation
  tx,        \* transaction.instructions
  rpcLog,    \* the RPC calls made so far, with their answers
  sent,      \* the transactions handed to sendAndConfirmTransaction
  result     \* how the invocation ended

vars == <<op, pc, args, loc, tx, rpcLog, sent, result>>

NoArgs ==
  [privateKey |-> <<>>, recipient |-> -1, amount |-> Zero,
   initialSupply |-> Zero, decimals |-> 0]

NoLocals ==
  [keypair |-> NoKeypair,        \* wallet / senderKeypair
   balance |-> Zero,             \* balance (lamports)
   sourceInfo |-> "unchecked",   \* sourceInfo: "absent" is null
   destInfo |-> "unchecked",     \* destInfo
   mintDecimals |-> -1,          \* mintInfo.decimals
   amount |-> Zero,              \* amountInSmallestUnits / lamports
   have |-> Zero,                \* have
   preflight |-> "none",         \* the balance check: "passed" or "failed"
   blockhash |-> "",             \* blockhash
   recentBlockhash |-> "",       \* transaction.recentBlockhash
   feePayer |-> -1]              \* transaction.feePayer

Pending == [kind |-> "pending", success |-> FALSE, signature |-> "", error |-> NoError]
Returned(success, signature, error) ==
  [kind |-> "returned", success |-> success, signature |-> signature, error |-> error]
Threw(error) ==
  [kind |-> "threw", success |-> FALSE, signature |-> "", error |-> error]

Init ==
  /\ op = "none"
  /\ pc = "idle"
  /\ args = NoArgs
  /\ loc = NoLocals
  /\ tx = <<>>
  /\ rpcLog = <<>>
  /\ sent = <<>>
  /\ result = Pending

\* an entry of rpcLog: a call that was answered, or one that was rejected
Answered(method, answer) == [method |-> method, ok |-> TRUE, answer |-> answer]
Rejected(method) == [method |-> method, ok |-> FALSE, answer |-> "rejected"]

\* a slip: the instruction is put in front of the list
AddInstruction_Prepending(instructions, instruction) ==
  <<instruction>> \o instructions

\* transaction.add(instruction)
AddInstruction(instructions, instruction) == Append(instructions, instruction)

----------------------------------------------------------------------------
(* createTokenWithMetadata (part_000 lines 33-229).                        *)

\* catch (error) of createTokenWithMetadata, lines 218-228: error.message is
\* logged and searched with includes(), then returned
CreateTokenCatch(error) ==
  IF error.hasMessage
  THEN Returned(FALSE, "", error)
  ELSE Threw(Err("Cannot read properties of undefined (reading 'includes')"))

\* the call, up to the first await (lines 33-56)
CreateTokenCall ==
  /\ pc = "idle"
  /\ \E privateKey \in KeyStrings, config \in TokenConfigs :
       LET wallet == WalletFromPrivateKey(privateKey)
       IN  /\ op' = "createTokenWithMetadata"
           /\ args' = [NoArgs EXCEPT !.privateKey = privateKey,
                                     !.initialSupply = config.initialSupply,
                                     !.decimals = config.decimals]
           /\ IF wallet.ok
              THEN /\ loc' = [loc EXCEPT !.keypair = wallet.keypair]
                   /\ pc' = "getBalance"
                   /\ result' = result
              ELSE /\ loc' = loc
                   /\ pc' = "done"
                   /\ result' = CreateTokenCatch(wallet.error)
  /\ UNCHANGED <<tx, rpcLog, sent>>

\* await connection.getBalance(wallet.publicKey), lines 56-61: a low balance
\* only logs a warning
CreateTokenGetBalance ==
  /\ op = "createTokenWithMetadata" /\ pc = "getBalance"
  /\ \/ \E balance \in {NatToBits(0), NatToBits(1000000000)} :
          /\ rpcLog' = Append(rpcLog, Answered("getBalance", balance))
          /\ loc' = [loc EXCEPT !.balance = balance]
          /\ pc' = "getMinimumBalanceForRentExemptMint"
          /\ result' = result
     \/ \E error \in RpcRejections :
          /\ rpcLog' = Append(rpcLog, Rejected("getBalance"))
          /\ loc' = loc
          /\ pc' = "done"
          /\ result' = CreateTokenCatch(error)
  /\ UNCHANGED <<op, args, tx, sent>>

\* TOKEN_CONFIG.initialSupply * Math.pow(10, TOKEN_CONFIG.decimals), line 146
MintAmount(initialSupply, decimals) == NumberTimesPow10(initialSupply, decimals)

\* the instructions added by lines 93-150, in the order they are added
CreateTokenInstructions(wallet, mintKeypair, rentExemptBalance, config) ==
  LET mint == mintKeypair.publicKey
      associatedTokenAccount == AssociatedTokenAddress(mint, wallet.publicKey)
      i1 == [type |-> "SetComputeUnitLimit", units |-> 250000]
      i2 == [type |-> "SetComputeUnitPrice", microLamports |-> 200000]
      i3 == [type |-> "CreateAccount", fromPubkey |-> wallet.publicKey,
             newAccountPubkey |-> mint, space |-> "MINT_SIZE",
             lamports |-> rentExemptBalance, programId |-> "TOKEN_PROGRAM_ID"]
      i4 == [type |-> "InitializeMint", mint |-> mint,
             decimals |-> config.decimals,
             mintAuthority |-> wallet.publicKey,
             freezeAuthority |-> wallet.publicKey]
      i5 == [type |-> "CreateAssociatedTokenAccount",
             payer |-> wallet.publicKey,
             associatedToken |-> associatedTokenAccount,
             owner |-> wallet.publicKey, mint |-> mint]
      i6 == [type |-> "MintTo", mint |-> mint,
             destination |-> associatedTokenAccount,
             authority |-> wallet.publicKey,
             amount |-> MintAmount(config.initialSupply, config.decimals)]
  IN  AddInstruction(AddInstruction(AddInstruction(AddInstruction(
        AddInstruction(AddInstruction(<<>>, i1), i2), i3), i4), i5), i6)

\* await getMinimumBalanceForRentExemptMint(connection), then lines 89-178.
\* createCreateMetadataAccountV3Instruction (line 154) is bound nowhere in
\* the file (line 12 binds only mplTokenMetadata), so evaluating the call
\* throws a ReferenceError after the sixth instruction has been added:
\* lines 180-217 are never reached.
CreateTokenBuild ==
  /\ op = "createTokenWithMetadata" /\ pc = "getMinimumBalanceForRentExemptMint"
  /\ \/ \E rentExemptBalance \in {NatToBits(1461600)} :
          /\ rpcLog' = Append(rpcLog,
               Answered("getMinimumBalanceForRentExemptMint", rentExemptBalance))
          /\ tx' = CreateTokenInstructions(loc.keypair, NewMintKeypair,
                                           rentExemptBalance, args)
          /\ result' = CreateTokenCatch(
               Err("createCreateMetadataAccountV3Instruction is not defined"))
     \/ \E error \in RpcRejections :
          /\ rpcLog' = Append(rpcLog,
               Rejected("getMinimumBalanceForRentExemptMint"))
          /\ tx' = tx
          /\ result' = CreateTokenCatch(error)
  /\ pc' = "done"
  /\ UNCHANGED <<op, args, loc, sent>>

----------------------------------------------------------------------------
(* transferSOL (part_001 lines 67-120; walletFun.js lines 59-112 is the    *)
(* same text).                                                             *)

\* amountSOL is written as a decimal numeral with nine fractional digits and
\* kept as the count of its 10^-9 units (1 coin is 10^9, 0.005 coin is
\* 5000000).  The double the numeral denotes, times 2^DivScale:
AmountSOLNumber(amountSOL) == NumberDivPow10(amountSOL, SOL_DECIMALS)

\* balanceInSOL = balance / 1000000000, times 2^DivScale (line 78)
BalanceInSOL(balance) == NumberDivPow10(balance, SOL_DECIMALS)

\* balanceInSOL < amountSOL (line 81)
BalanceTooLow(balance, amountSOL) ==
  Less(BalanceInSOL(balance), AmountSOLNumber(amountSOL))

\* lamports = amountSOL * 1000000000 (line 89); for every amount of
\* SolAmounts the product is a whole number of lamports
Lamports(amountSOL) ==
  ShiftRight(DoubleTimesPow10(AmountSOLNumber(amountSOL), SOL_DECIMALS),
             DivScale(SOL_DECIMALS))

\* a slip: the signer array left empty
TransferSigners_Empty(senderKeypair) == <<>>

\* the signers handed to sendAndConfirmTransaction by the two transfers
TransferSigners(senderKeypair) == <<senderKeypair>>

\* the call, up to the first await (lines 68-77)
TransferSOLCall ==
  /\ pc = "idle"
  /\ \E senderPrivateKeyHex \in KeyStrings, recipient \in Recipients,
        amountSOL \in SolAmounts :
       LET sender == SenderFromPrivateKeyHex(senderPrivateKeyHex)
       IN  /\ op' = "transferSOL"
           /\ args' = [NoArgs EXCEPT !.privateKey = senderPrivateKeyHex,
                                     !.recipient = recipient,
                                     !.amount = amountSOL]
           /\ IF sender.ok
              THEN /\ loc' = [loc EXCEPT !.keypair = sender.keypair]
                   /\ pc' = "getBalance"
                   /\ result' = result
              ELSE /\ loc' = loc
                   /\ pc' = "done"
                   /\ result' = Threw(sender.error)
  /\ UNCHANGED <<tx, rpcLog, sent>>

\* await connection.getBalance, the balance check and the transaction
\* (lines 77-99)
TransferSOLGetBalance ==
  /\ op = "transferSOL" /\ pc = "getBalance"
  /\ \/ \E balance \in LamportBalances :
          /\ rpcLog' = Append(rpcLog, Answered("getBalance", balance))
          /\ IF BalanceTooLow(balance, args.amount)
             THEN /\ loc' = [loc EXCEPT !.balance = balance,
                                        !.preflight = "failed"]
                  /\ tx' = tx
                  /\ pc' = "done"
                  /\ result' = Threw(Err("insufficient balance"))
             ELSE /\ loc' = [loc EXCEPT !.balance = balance,
                                        !.preflight = "passed",
                                        !.amount = Lamports(args.amount)]
                  /\ tx' = AddInstruction(<<>>,
                       [type |-> "Transfer",
                        fromPubkey |-> loc.keypair.publicKey,
                        toPubkey |-> args.recipient,
                        lamports |-> Lamports(args.amount)])
                  /\ pc' = "getLatestBlockhash"
                  /\ result' = result
     \/ \E error \in RpcRejections :
          /\ rpcLog' = Append(rpcLog, Rejected("getBalance"))
          /\ pc' = "done"
          /\ result' = Threw(error)
          /\ UNCHANGED <<loc, tx>>
  /\ UNCHANGED <<op, args, sent>>

\* await connection.getLatestBlockhash(), then recentBlockhash and feePayer
\* (lines 102-104)
TransferSOLGetLatestBlockhash ==
  /\ op = "transferSOL" /\ pc = "getLatestBlockhash"
  /\ \/ \E blockhash \in Blockhashes :
          /\ rpcLog' = Append(rpcLog, Answered("getLatestBlockhash", blockhash))
          /\ loc' = [loc EXCEPT !.blockhash = blockhash,
                                !.recentBlockhash = blockhash,
                                !.feePayer = loc.keypair.publicKey]
          /\ pc' = "sendAndConfirmTransaction"
          /\ result' = result
     \/ \E error \in RpcRejections :
          /\ rpcLog' = Append(rpcLog, Rejected("getLatestBlockhash"))
          /\ pc' = "done"
          /\ result' = Threw(error)
          /\ loc' = loc
  /\ UNCHANGED <<op, args, tx, sent>>

\* what sendAndConfirmTransaction(connection, transaction, signers) is given
Submission(signers) ==
  [op |-> op, instructions |-> tx, recentBlockhash |-> loc.recentBlockhash,
   feePayer |-> loc.feePayer, signers |-> signers]

\* await sendAndConfirmTransaction(connection, transaction, [senderKeypair])
\* and the return (lines 107-114)
TransferSOLSend ==
  /\ op = "transferSOL" /\ pc = "sendAndConfirmTransaction"
  /\ sent' = Append(sent, Submission(TransferSigners(loc.keypair)))
  /\ \/ \E signature \in Signatures :
          /\ rpcLog' = Append(rpcLog, Answered("sendAndConfirmTransaction", signature))
          /\ result' = Returned(TRUE, signature, NoError)
     \/ \E error \in RpcRejections :
          /\ rpcLog' = Append(rpcLog, Rejected("sendAndConfirmTransaction"))
          /\ result' = Threw(error)
  /\ pc' = "done"
  /\ UNCHANGED <<op, args, loc, tx>>

----------------------------------------------------------------------------
(* transferToken (part_001 lines 131-202).                                 *)

\* sourceAta and destAta (lines 138-139)
SourceAta == AssociatedTokenAddress(MintAddress, loc.keypair.publicKey)
DestAta == AssociatedTokenAddress(MintAddress, args.recipient)

\* Math.round(amount * Math.pow(10, mintInfo.decimals)), line 172, for a
\* whole number of tokens
AmountInSmallestUnits(amount, decimals) == NumberTimesPow10(amount, decimals)

\* parseInt(value.amount, 10), line 175
ParseAmount(amount) == ToNumber(amount)

\* a slip: a failed lookup taken for a balance that covers any request
DefaultHave_Unlimited == [i \in 1..64 |-> 1]

\* let have = 0, and have = 0 in the catch of the lookup, lines 174-175
DefaultHave == Zero

\* a slip: the comparison turned around
InsufficientTokenBalance_Swapped(have, amountInSmallestUnits) ==
  Less(amountInSmallestUnits, have)

\* have < amountInSmallestUnits, line 176
InsufficientTokenBalance(have, amountInSmallestUnits) ==
  Less(have, amountInSmallestUnits)

\* createAssociatedTokenAccountInstruction(payer, associatedToken, owner, mint)
CreateAtaInstruction(payer, associatedToken, owner) ==
  [type |-> "CreateAssociatedTokenAccount", payer |-> payer,
   associatedToken |-> associatedToken, owner |-> owner, mint |-> MintAddress]

\* the call, up to the first await (lines 132-143)
TransferTokenCall ==
  /\ pc = "idle"
  /\ \E senderPrivateKeyHex \in KeyStrings, recipient \in Recipients,
        amount \in TokenAmounts :
       LET sender == SenderFromPrivateKeyHex(senderPrivateKeyHex)
       IN  /\ op' = "transferToken"
           /\ args' = [NoArgs EXCEPT !.privateKey = senderPrivateKeyHex,
                                     !.recipient = recipient,
                                     !.amount = amount]
           /\ IF sender.ok
              THEN /\ loc' = [loc EXCEPT !.keypair = sender.keypair]
                   /\ pc' = "getAccountInfo(sourceAta)"
                   /\ result' = result
              ELSE /\ loc' = loc
                   /\ pc' = "done"
                   /\ result' = Threw(sender.error)
  /\ UNCHANGED <<tx, rpcLog, sent>>

\* await connection.getAccountInfo(sourceAta) and lines 144-155
TransferTokenSourceInfo ==
  /\ op = "transferToken" /\ pc = "getAccountInfo(sourceAta)"
  /\ \/ \E sourceInfo \in {"absent", "present"} :
          /\ rpcLog' = Append(rpcLog, Answered("getAccountInfo", sourceInfo))
          /\ loc' = [loc EXCEPT !.sourceInfo = sourceInfo]
          /\ tx' = IF sourceInfo = "absent"
                   THEN AddInstruction(tx,
                          CreateAtaInstruction(loc.keypair.publicKey, SourceAta,
                                               loc.keypair.publicKey))
                   ELSE tx
          /\ pc' = "getAccountInfo(destAta)"
          /\ result' = result
     \/ \E error \in RpcRejections :
          /\ rpcLog' = Append(rpcLog, Rejected("getAccountInfo"))
          /\ pc' = "done"
          /\ result' = Threw(error)
          /\ UNCHANGED <<loc, tx>>
  /\ UNCHANGED <<op, args, sent>>

\* await connection.getAccountInfo(destAta) and lines 158-169.  With
\* unchanging, the chain is the same as at the previous query: the same
\* account gets the same answer.
TransferTokenDestInfo(unchanging) ==
  /\ op = "transferToken" /\ pc = "getAccountInfo(destAta)"
  /\ \/ \E destInfo \in {"absent", "present"} :
          /\ unchanging /\ DestAta = SourceAta => destInfo = loc.sourceInfo
          /\ rpcLog' = Append(rpcLog, Answered("getAccountInfo", destInfo))
          /\ loc' = [loc EXCEPT !.destInfo = destInfo]
          /\ tx' = IF destInfo = "absent"
                   THEN AddInstruction(tx,
                          CreateAtaInstruction(loc.keypair.publicKey, DestAta,
                                               args.recipient))
                   ELSE tx
          /\ pc' = "getMint"
          /\ result' = result
     \/ \E error \in RpcRejections :
          /\ rpcLog' = Append(rpcLog, Rejected("getAccountInfo"))
          /\ pc' = "done"
          /\ result' = Threw(error)
          /\ UNCHANGED <<loc, tx>>
  /\ UNCHANGED <<op, args, sent>>

\* await getMint(connection, mintPubkey) and line 172
TransferTokenGetMint ==
  /\ op = "transferToken" /\ pc = "getMint"
  /\ \/ \E decimals \in MintDecimals :
          /\ rpcLog' = Append(rpcLog, Answered("getMint", decimals))
          /\ loc' = [loc EXCEPT !.mintDecimals = decimals,
                                !.amount = AmountInSmallestUnits(args.amount, decimals)]
          /\ pc' = "getTokenAccountBalance"
          /\ result' = result
     \/ \E error \in RpcRejections :
          /\ rpcLog' = Append(rpcLog, Rejected("getMint"))
          /\ pc' = "done"
          /\ result' = Threw(error)
          /\ loc' = loc
  /\ UNCHANGED <<op, args, tx, sent>>

\* lines 174-189 once have is known: the balance check, then the
\* checked-transfer instruction
TransferTokenCheck(have) ==
  IF InsufficientTokenBalance(have, loc.amount)
  THEN /\ loc' = [loc EXCEPT !.have = have, !.preflight = "failed"]
       /\ tx' = tx
       /\ pc' = "done"
       /\ result' = Threw(Err("insufficient token balance"))
  ELSE /\ loc' = [loc EXCEPT !.have = have, !.preflight = "passed"]
       /\ tx' = AddInstruction(tx,
            [type |-> "TransferChecked", source |-> SourceAta,
             mint |-> MintAddress, destination |-> DestAta,
             owner |-> loc.keypair.publicKey,
             amount |-> loc.amount, decimals |-> loc.mintDecimals])
       /\ pc' = "getLatestBlockhash"
       /\ result' = result

\* await connection.getTokenAccountBalance(sourceAta) inside its own try:
\* a rejection leaves have at 0 (line 175).  With unchanging, the account
\* that was absent at line 143 is still absent and the query is rejected.
TransferTokenBalance(unchanging) ==
  /\ op = "transferToken" /\ pc = "getTokenAccountBalance"
  /\ \/ \E amount \in TokenBalances :
          /\ unchanging => loc.sourceInfo = "present"
          /\ rpcLog' = Append(rpcLog, Answered("getTokenAccountBalance", amount))
          /\ TransferTokenCheck(ParseAmount(amount))
     \/ /\ rpcLog' = Append(rpcLog, Rejected("getTokenAccountBalance"))
        /\ TransferTokenCheck(DefaultHave)
  /\ UNCHANGED <<op, args, sent>>

\* await connection.getLatestBlockhash(), then recentBlockhash and feePayer
\* (lines 191-193)
TransferTokenGetLatestBlockhash ==
  /\ op = "transferToken" /\ pc = "getLatestBlockhash"
  /\ \/ \E blockhash \in Blockhashes :
          /\ rpcLog' = Append(rpcLog, Answered("getLatestBlockhash", blockhash))
          /\ loc' = [loc EXCEPT !.blockhash = blockhash,
                                !.recentBlockhash = blockhash,
                                !.feePayer = loc.keypair.publicKey]
          /\ pc' = "sendAndConfirmTransaction"
          /\ result' = result
     \/ \E error \in RpcRejections :
          /\ rpcLog' = Append(rpcLog, Rejected("getLatestBlockhash"))
          /\ pc' = "done"
          /\ result' = Threw(error)
          /\ loc' = loc
  /\ UNCHANGED <<op, args, tx, sent>>

\* await sendAndConfirmTransaction(connection, tx, [senderKeypair]) and the
\* return (lines 195-197)
TransferTokenSend ==
  /\ op = "transferToken" /\ pc = "sendAndConfirmTransaction"
  /\ sent' = Append(sent, Submission(TransferSigners(loc.keypair)))
  /\ \/ \E signature \in Signatures :
          /\ rpcLog' = Append(rpcLog, Answered("sendAndConfirmTransaction", signature))
          /\ result' = Returned(TRUE, signature, NoError)
     \/ \E error \in RpcRejections :
          /\ rpcLog' = Append(rpcLog, Rejected("sendAndConfirmTransaction"))
          /\ result' = Threw(error)
  /\ pc' = "done"
  /\ UNCHANGED <<op, args, loc, tx>>

----------------------------------------------------------------------------
(* Specifications.                                                         *)

Next ==
  \/ CreateTokenCall
  \/ CreateTokenGetBalance
  \/ CreateTokenBuild
  \/ TransferSOLCall
  \/ TransferSOLGetBalance
  \/ TransferSOLGetLatestBlockhash
  \/ TransferSOLSend
  \/ TransferTokenCall
  \/ TransferTokenSourceInfo
  \/ TransferTokenDestInfo(FALSE)
  \/ TransferTokenGetMint
  \/ TransferTokenBalance(FALSE)
  \/ TransferTokenGetLatestBlockhash
  \/ TransferTokenSend

\* any answers: the chain may change between two queries
Spec == Init /\ [][Next]_vars

NextUnchanging ==
  \/ CreateTokenCall
  \/ CreateTokenGetBalance
  \/ CreateTokenBuild
  \/ TransferSOLCall
  \/ TransferSOLGetBalance
  \/ TransferSOLGetLatestBlockhash
  \/ TransferSOLSend
  \/ TransferTokenCall
  \/ TransferTokenSourceInfo
  \/ TransferTokenDestInfo(TRUE)
  \/ TransferTokenGetMint
  \/ TransferTokenBalance(TRUE)
  \/ TransferTokenGetLatestBlockhash
  \/ TransferTokenSend

\* the chain does not change during the invocation
SpecUnchanging == Init /\ [][NextUnchanging]_vars

----------------------------------------------------------------------------
(* Properties.                                                             *)

Called(method) == \E i \in 1..Len(rpcLog) : rpcLog[i].method = method

InstructionTypes(instructions) ==
  [i \in 1..Len(instructions) |-> instructions[i].type]

InsufficientTokens == Threw(Err("insufficient token balance"))
InsufficientLamports == Threw(Err("insufficient balance"))

\* C1: a createTokenWithMetadata run that gets as far as its submission
\* statement (the key decoded, both queries answered) submits one
\* transaction holding exactly the seven instructions, in the order: compute
\* unit limit, compute unit price, create mint account, initialize mint,
\* create associated account, mint to, create metadata account.
C1_SevenInstructionsSubmitted ==
  (/\ op = "createTokenWithMetadata" /\ pc = "done"
   /\ Len(rpcLog) = 2 /\ rpcLog[2].ok)
  => /\ Len(sent) = 1
     /\ InstructionTypes(sent[1].instructions) =
          << "SetComputeUnitLimit", "SetComputeUnitPrice", "CreateAccount",
             "InitializeMint", "CreateAssociatedTokenAccount", "MintTo",
             "CreateMetadataAccountV3" >>

\* the transfer transaction has been built: the balance check has passed
TokenTxBuilt == op = "transferToken" /\ loc.preflight = "passed"

\* C2: in transferToken, whatever the two existence answers, the built list
\* ends with the one checked-transfer instruction, everything before it is
\* an associated-account creation, the sender's (when its account is
\* absent) before the recipient's (when its account is absent).
C2_CreationsPrecedeTransfer ==
  TokenTxBuilt =>
    LET n == Len(tx)
        sender == loc.keypair.publicKey
        creations ==
          (IF loc.sourceInfo = "absent"
           THEN <<CreateAtaInstruction(sender, SourceAta, sender)>> ELSE <<>>)
          \o
          (IF loc.destInfo = "absent"
           THEN <<CreateAtaInstruction(sender, DestAta, args.recipient)>> ELSE <<>>)
    IN  /\ n >= 1
        /\ tx[n].type = "TransferChecked"
        /\ \A i \in 1..(n - 1) : tx[i].type = "CreateAssociatedTokenAccount"
        /\ SubSeq(tx, 1, n - 1) = creations

\* C2's case: both accounts absent, two distinct creations and the transfer
C2_Witness ==
  /\ TokenTxBuilt
  /\ loc.sourceInfo = "absent" /\ loc.destInfo = "absent"
  /\ SourceAta # DestAta
  /\ InstructionTypes(tx) = << "CreateAssociatedTokenAccount",
                               "CreateAssociatedTokenAccount", "TransferChecked" >>

CreationsFor(account) ==
  Cardinality({ i \in 1..Len(tx) :
                  /\ tx[i].type = "CreateAssociatedTokenAccount"
                  /\ tx[i].associatedToken = account })

\* C3: in transferToken, once the existence check has answered absent for
\* the recipient's associated account, the instruction list holds exactly
\* one creation instruction for that account, also when the recipient is
\* the sender.
C3_OneCreationForRecipient ==
  (op = "transferToken" /\ loc.destInfo = "absent") => CreationsFor(DestAta) = 1

\* the answer to the token balance query, as the check uses it
BalanceUsed ==
  LET i == CHOOSE j \in 1..Len(rpcLog) : rpcLog[j].method = "getTokenAccountBalance"
  IN  IF rpcLog[i].ok THEN ParseAmount(rpcLog[i].answer) ELSE Zero

\* C4: in transferToken, when the balance the check uses (the fetched one,
\* zero when the lookup fails) is less than the requested smallest-unit
\* amount, the operation throws the insufficient-balance error, and
\* neither getLatestBlockhash nor sendAndConfirmTransaction is called.
C4_InsufficientTokensNoSubmission ==
  (op = "transferToken" /\ Called("getTokenAccountBalance")) =>
    /\ loc.have = BalanceUsed
    /\ Less(BalanceUsed, loc.amount) =>
         /\ pc = "done" /\ result = InsufficientTokens
         /\ ~Called("getLatestBlockhash")
         /\ ~Called("sendAndConfirmTransaction")
         /\ sent = <<>>

\* C4's case: balance 0, request of 1 smallest unit
C4_Witness ==
  /\ op = "transferToken" /\ Called("getTokenAccountBalance")
  /\ BalanceUsed = Zero /\ loc.amount = NatToBits(1)
  /\ result = InsufficientTokens

\* C5: in transferSOL, when the balance getBalance answered is less than the
\* requested amount, both in lamports, the operation throws the
\* insufficient-balance error with no instruction built and neither
\* getLatestBlockhash nor sendAndConfirmTransaction called; otherwise the
\* transaction holds exactly one instruction, the native transfer.
C5_LamportPreflight ==
  (op = "transferSOL" /\ Len(rpcLog) >= 1 /\ rpcLog[1].ok) =>
    IF Less(rpcLog[1].answer, args.amount)
    THEN /\ pc = "done" /\ result = InsufficientLamports
         /\ tx = <<>> /\ sent = <<>>
         /\ ~Called("getLatestBlockhash")
         /\ ~Called("sendAndConfirmTransaction")
    ELSE InstructionTypes(tx) = <<"Transfer">>

\* C6: every smallest-unit amount placed in an instruction is the whole-unit
\* amount times 10^decimals, exactly: the mint-to amount, the
\* checked-transfer amount (with the mint's decimals carried along) and the
\* lamports of the native transfer.
C6_ExactSmallestUnits ==
  \A i \in 1..Len(tx) :
    /\ tx[i].type = "MintTo" =>
         tx[i].amount = TimesPow10(args.initialSupply, args.decimals)
    /\ tx[i].type = "TransferChecked" =>
         /\ tx[i].decimals = loc.mintDecimals
         /\ tx[i].amount = TimesPow10(args.amount, loc.mintDecimals)
    /\ tx[i].type = "Transfer" => tx[i].lamports = args.amount

\* C7: an operation called with a hex string of odd length, with a non-hex
\* character or of the wrong byte length fails before any RPC call, and no
\* keypair is made of the string.
C7_MalformedKeyFails ==
  LET str == args.privateKey
      malformed ==
        \/ Len(str) % 2 = 1
        \/ \E i \in 1..Len(str) : str[i] \notin HexDigits
        \/ Len(str) \div 2 # KeyLen
  IN  (op # "none" /\ malformed) =>
        /\ pc = "done" /\ result.kind # "pending" /\ ~result.success
        /\ rpcLog = <<>>
        /\ loc.keypair = NoKeypair

\* the place of the one call of method in rpcLog
IndexOf(method) == CHOOSE i \in 1..Len(rpcLog) : rpcLog[i].method = method

C9_CreateTokenNeverThrows ==
  /\ (op = "createTokenWithMetadata" /\ pc = "done") =>
       /\ result.kind = "returned"
       /\ result.success =>
            /\ Len(sent) = 1
            /\ rpcLog[Len(rpcLog)] =
                 Answered("sendAndConfirmTransaction", result.signature)
       /\ ~result.success => result.error.hasMessage
  /\ (op \in {"transferSOL", "transferToken"} /\ pc = "done") =>
       \/ result.kind = "threw"
       \/ result.kind = "returned" /\ result.success

\* C10: with an unchanging chain, a transferToken transaction that creates
\* the sender's own associated account is submitted only for a
\* smallest-unit amount of 0, and every positive amount with the sender's
\* account absent ends with the insufficient-balance error, unsubmitted.
C10_SenderCreationNeverFunded ==
  (op = "transferToken" /\ loc.sourceInfo = "absent") =>
    /\ (pc \in {"getLatestBlockhash", "sendAndConfirmTransaction"} \/ sent # <<>>)
         => loc.amount = Zero
    /\ (args.amount # Zero /\ pc = "done") =>
         result = InsufficientTokens /\ sent = <<>>

\* C10, amended: ... every positive amount with the sender's account absent
\* ends with an error and unsubmitted, the error being the
\* insufficient-balance error whenever the invocation got as far as the
\* balance check (a rejected existence or mint query ends it earlier, with
\* that rejection).
C10_SenderCreationNeverFunded_Amended ==
  (op = "transferToken" /\ loc.sourceInfo = "absent") =>
    /\ (pc \in {"getLatestBlockhash", "sendAndConfirmTransaction"} \/ sent # <<>>)
         => loc.amount = Zero
    /\ (args.amount # Zero /\ pc = "done") =>
         /\ result.kind = "threw" /\ sent = <<>>
         /\ Called("getTokenAccountBalance") => result = InsufficientTokens

\* C10's case: the sender's account absent, a positive amount, the check
\* made and failed
C10_Witness ==
  /\ op = "transferToken" /\ loc.sourceInfo = "absent"
  /\ args.amount # Zero /\ pc = "done"
  /\ Called("getTokenAccountBalance")
  /\ result = InsufficientTokens

====
